---- MODULE Spec2Model ----
(***************************************************************************)
(* State-machine model of the dndtools crawler (src/src/index.ts):         *)
(*   main            the driver: launch the browser, list, crawl, print    *)
(*   crawlSpellListPages / crawlSpellListPage    the list paginator        *)
(*   crawlSpellPages                             eachLimit + outer retry   *)
(*   crawlSpellPage                              one detail fetch          *)
(* Every await of the source is a suspension point; one action is the code *)
(* that runs from one resumption to the next suspension.                   *)
(***************************************************************************)
EXTENDS Integers, Sequences, FiniteSets, TLC

(***************************************************************************)
(* Program constants (index.ts:9-14)                                       *)
(***************************************************************************)
RULEBOOKS == {"Player's Handbook v.3.5", "Spell Compendium"}
CONCURRENCY == 4
RETRY_LIMIT == 10

\* The base url, as a string of characters; it ends in no digit and no slash.
DNDTOOLS_URL_BASE == <<"n", "e", "t">>

(***************************************************************************)
(* Bounds of the model                                                     *)
(***************************************************************************)
\* largest retry limit of the scaled specification Spec
MaxRetryLimit == 2
\* pages of a catalog, rows of an index page (specification SpecList)
MaxPages == 3
MaxRows == 2

(***************************************************************************)
(* Values                                                                  *)
(***************************************************************************)
\* JavaScript null, as the value of `error` and as the argument of done()
NoErr == [cause |-> "null", at |-> <<>>]

Digits == {"0", "1", "2", "3"}

\* hrefs of the first-column link, as strings of characters
HrefA == <<"/", "a", "1", "/">>
HrefB == <<"/", "b", "2", "3">>
\* no trailing number
HrefC == <<"/", "c", "/">>
\* e.getAttribute("href") of a link without the attribute: null, which the
\* template string of index.ts:417 prints as the word null
HrefNull == <<"null">>

(***************************************************************************)
(* Rows of the index table.  th: the row holds a <th>; rb: the row has a   *)
(* td:nth-child(4) a; rulebook: its text; link: the row has a              *)
(* td:nth-child(1) a; href: its href attribute.                            *)
(***************************************************************************)
MkRow(th, rb, rulebook, link, href) ==
    [th |-> th, rb |-> rb, rulebook |-> rulebook, link |-> link, href |-> href]

RowHeader == MkRow(TRUE, FALSE, "", FALSE, <<>>)
RowA == MkRow(FALSE, TRUE, "Spell Compendium", TRUE, HrefA)
RowB == MkRow(FALSE, TRUE, "Player's Handbook v.3.5", TRUE, HrefB)
RowC == MkRow(FALSE, TRUE, "Spell Compendium", TRUE, HrefC)
RowOther == MkRow(FALSE, TRUE, "Complete Arcane", TRUE, HrefA)
RowNoRulebook == MkRow(FALSE, FALSE, "", TRUE, HrefB)
RowNoLink == MkRow(FALSE, TRUE, "Spell Compendium", FALSE, <<>>)
RowNullHref == MkRow(FALSE, TRUE, "Spell Compendium", TRUE, HrefNull)

SampleRows ==
    {RowHeader, RowA, RowB, RowC, RowOther, RowNoRulebook, RowNoLink, RowNullHref}

SeqsUpTo(S, n) == UNION {[1..k -> S] : k \in 0..n}

MkPage(rows, next) == [rows |-> rows, next |-> next]

\* A finite catalog: its last page has no "next" control.
CatalogsOf(pages) ==
    {c \in UNION {[1..k -> pages] : k \in 1..MaxPages} : ~c[Len(c)].next}

(***************************************************************************)
(* crawlSpellListPage (index.ts:61-87): the rows of one page, in order.    *)
(***************************************************************************)
\* a bug: the rulebook is not looked at
CrawlRowNoFilter(spellUrls, row) ==
    IF row.th \/ ~row.rb \/ ~row.link THEN spellUrls
    ELSE Append(spellUrls, row.href)

\* index.ts:68-81, one iteration of the loop: the urls after `row`
CrawlRow(spellUrls, row) ==
    IF row.th THEN spellUrls
    ELSE IF ~row.rb THEN spellUrls
    ELSE IF row.rulebook \in RULEBOOKS
         THEN IF ~row.link THEN spellUrls
              ELSE Append(spellUrls, row.href)
         ELSE spellUrls

\* a row on which row.$eval rejects (index.ts:74, 76): no rulebook link, or
\* a rulebook of the list and no link in the first column
RowFails(row) ==
    ~row.th /\ (~row.rb \/ (row.rulebook \in RULEBOOKS /\ ~row.link))

\* a bug: the try around the loop, a row that fails ends the page
RECURSIVE CrawlRowsAbort(_, _, _)
CrawlRowsAbort(rows, i, spellUrls) ==
    IF i > Len(rows) \/ RowFails(rows[i]) THEN spellUrls
    ELSE CrawlRowsAbort(rows, i + 1, CrawlRow(spellUrls, rows[i]))

RECURSIVE CrawlRows(_, _, _)
CrawlRows(rows, i, spellUrls) ==
    IF i > Len(rows) THEN spellUrls
    ELSE CrawlRows(rows, i + 1, CrawlRow(spellUrls, rows[i]))

crawlSpellListPage(page) == CrawlRows(page.rows, 1, <<>>)

(***************************************************************************)
(* The id of a spell: /(\d+)\/?$/.exec(url)[1] (index.ts:370)              *)
(***************************************************************************)
StripSlash(s) ==
    IF Len(s) > 0 /\ s[Len(s)] = "/" THEN SubSeq(s, 1, Len(s) - 1) ELSE s

RECURSIVE TrailingDigits(_)
TrailingDigits(s) ==
    IF Len(s) = 0 \/ s[Len(s)] \notin Digits THEN <<>>
    ELSE Append(TrailingDigits(SubSeq(s, 1, Len(s) - 1)), s[Len(s)])

\* the first group of the match; <<>> when the expression does not match
ExecId(url) == TrailingDigits(StripSlash(url))
IdMatches(url) == ExecId(url) # <<>>

\* `${DNDTOOLS_URL_BASE}${spellUrl}` (index.ts:417)
SpellUrl(spellUrl) == DNDTOOLS_URL_BASE \o spellUrl

(***************************************************************************)
(* Errors.  The code never builds one: every error is the one puppeteer or *)
(* the runtime raised, passed on unchanged (index.ts:396, 421, 429).       *)
(* cause: what failed; at: the url the message names (only a network error *)
(* of page.goto names one, "net::ERR_... at <url>").                       *)
(***************************************************************************)
Err(cause, at) == [cause |-> cause, at |-> at]
\* done() was not called yet
NotCalled == Err("notcalled", <<>>)
\* `if (err)`, `err ? reject(err) : resolve()`: null and undefined are falsy
Truthy(e) == e # NoErr

\* what page.goto(url) can reject with
LoadErrs(url) == {Err("net", url), Err("timeout", <<>>)}
LoadCauses == {"net", "timeout"}

(***************************************************************************)
(* State                                                                   *)
(***************************************************************************)
VARIABLES
    catalog,       \* the remote index: pages of rows, each page with or without a.next
    doc,           \* the detail document the site serves, as the readers see it
    retryLimit,    \* RETRY_LIMIT of the run
    limit,         \* CONCURRENCY of the run
    pc,            \* main: the await it is suspended at
    browser,       \* "none", "open", "closed"
    log,           \* the messages main logged
    stdout,        \* the writes to process.stdout
    closes,        \* the calls of browser.close()
    listPage,      \* the paginator's tab: "none", "open", "closing", "closed"
    pageIdx,       \* the index page the tab shows
    navFails,      \* failed navigations since the last page was crawled
    spellUrls,     \* crawlSpellListPages: the urls collected so far
    nextBtn,       \* crawlSpellListPages: the handle of a.next: "none", "live", or
                   \* "stale" once the tab has left the document it was taken from
    navTotal,      \* history: the failed navigations of the run of the paginator,
                   \* kept until main goes on with the list
    prev,          \* history: what earlier runs of the paginator returned
    el,            \* eachLimit: running, done, next element, final callback called
    promise,       \* the promise of crawlSpellPages
    task,          \* one iteratee of eachLimit per element of spellUrls
    spells,        \* main: the array the callback pushes to
    spellCounter   \* main: the progress counter

vars == <<catalog, doc, retryLimit, limit, pc, browser, log, stdout, closes, listPage, pageIdx,
          navFails, spellUrls, nextBtn, navTotal, prev,
          el, promise, task, spells, spellCounter>>

inputs == <<catalog, doc, retryLimit, limit>>
listVars == <<listPage, pageIdx, navFails, spellUrls, nextBtn, navTotal, prev>>
listHist == <<nextBtn, navTotal, prev>>
runVars == <<el, promise, task, spells, spellCounter>>

\* the failed navigations the model follows per page
MaxNavFails == 1

NoResult == [kind |-> "none", spell |-> <<>>, err |-> NoErr]
Returned(spell) == [kind |-> "spell", spell |-> spell, err |-> NoErr]
Thrown(e) == [kind |-> "throw", spell |-> <<>>, err |-> e]

\* An iteratee that eachLimit has not called yet.
\*   retryCount, error   the locals of the iteratee (index.ts:412-413)
\*   inner               retryCount of crawlSpellPage (index.ts:364)
\*   result              what crawlSpellPage returns or throws once its finally ends
\*   doneArg             the argument done() was called with
\*   warn                the last warning of index.ts:422: {spellUrl, error}
\*   page                the tab of the current call of crawlSpellPage
\*                       (index.ts:362): "none", "open", "closed", or "gone"
\*                       when page.close() rejected
\*   subs, calls, loads, loadFails, nameFails, callbacks, opened, released:
\*     history, read by no action: times submitted; calls of crawlSpellPage; of
\*     the current call, the page.goto calls, those that rejected, the readName
\*     calls that rejected; callbacks made; tabs opened and tabs closed by
\*     the calls for this item; page.goto calls of all its calls, and
\*     whether one of them resolved
IdleTask ==
    [pc |-> "idle", retryCount |-> 0, error |-> NoErr, inner |-> 0,
     result |-> NoResult, doneArg |-> NotCalled,
     warn |-> [spellUrl |-> <<>>, error |-> NoErr], page |-> "none",
     subs |-> 0, calls |-> 0, loads |-> 0, loadFails |-> 0, nameFails |-> 0,
     callbacks |-> 0, opened |-> 0, released |-> 0, allLoads |-> 0, loaded |-> FALSE]

NoPromise == [state |-> "none", err |-> NoErr]
NoEl == [running |-> 0, done |-> FALSE, next |-> 1, called |-> FALSE]

(***************************************************************************)
(* crawlSpellPages (index.ts:409-433): the iteratee's retry loop.          *)
(***************************************************************************)
\* a bug: done() on both branches, a failed item is dropped silently
DoneArgNever(retryCount, error) == NoErr

\* `if (retryCount > 0) done(); else done(error);` (index.ts:426-430)
DoneArg(retryCount, error) == IF retryCount > 0 THEN NoErr ELSE error

\* The head of `while (retryCount-- > 0)` (index.ts:414): either the next call
\* of crawlSpellPage, suspended at browser.newPage() (index.ts:362), or the
\* end of the loop and the call of done.
OuterLoop(t) ==
    IF t.retryCount > 0
    THEN [t EXCEPT !.retryCount = @ - 1, !.pc = "newPage", !.calls = @ + 1,
                   !.loads = 0, !.loadFails = 0, !.nameFails = 0, !.inner = 0,
                   !.result = NoResult, !.page = "none"]
    ELSE [t EXCEPT !.retryCount = @ - 1, !.pc = "finished",
                   !.result = NoResult,
                   !.doneArg = DoneArg(t.retryCount - 1, t.error)]

\* a bug: keeps the first error, `error = error || err`
OuterCatchFirst(t, spellUrl, e) ==
    [t EXCEPT !.retryCount = IF @ > 0 THEN @ - 1 ELSE @ - 1,
              !.pc = IF t.retryCount > 0 THEN "newPage" ELSE "finished",
              !.calls = IF t.retryCount > 0 THEN @ + 1 ELSE @,
              !.loads = 0, !.loadFails = 0, !.nameFails = 0, !.inner = 0,
              !.result = NoResult,
              !.page = IF t.retryCount > 0 THEN "none" ELSE @,
              !.error = IF Truthy(@) THEN @ ELSE e,
              !.warn = [spellUrl |-> spellUrl, error |-> e],
              !.doneArg = IF t.retryCount > 0 THEN @
                          ELSE IF Truthy(t.error) THEN t.error ELSE e]

\* `catch (err) { error = err; logger.warn(...) }` (index.ts:420-423) for the
\* element spellUrl, then the loop head
OuterCatch(t, spellUrl, e) ==
    OuterLoop([t EXCEPT !.error = e, !.warn = [spellUrl |-> spellUrl, error |-> e]])

\* a bug: no break after the callback, the loop goes on
OuterSuccessNoBreak(t) ==
    IF t.retryCount > 0
    THEN [t EXCEPT !.retryCount = @ - 1, !.pc = "newPage", !.calls = @ + 1,
                   !.loads = 0, !.loadFails = 0, !.nameFails = 0, !.inner = 0,
                   !.result = NoResult, !.page = "none", !.callbacks = @ + 1]
    ELSE [t EXCEPT !.retryCount = @ - 1, !.pc = "finished", !.result = NoResult,
                   !.callbacks = @ + 1, !.doneArg = t.error]

\* crawlSpellPage returned: `spellCallback(spell); break;` (index.ts:418-419),
\* then index.ts:426-430
OuterSuccess(t) ==
    [t EXCEPT !.pc = "finished", !.result = NoResult, !.callbacks = @ + 1,
              !.doneArg = DoneArg(t.retryCount, t.error)]

\* a bug: `retryCount-- >= 0`, one attempt more
StartIterateeOneMore(t) ==
    OuterLoop([t EXCEPT !.retryCount = retryLimit + 1, !.error = NoErr, !.subs = @ + 1])

\* eachLimit calls the iteratee (index.ts:411-414)
StartIteratee(t) ==
    OuterLoop([t EXCEPT !.retryCount = retryLimit, !.error = NoErr, !.subs = @ + 1])

(***************************************************************************)
(* crawlSpellPage (index.ts:362-407): the inner retry loop.                *)
(***************************************************************************)
\* The head of `while (retryCount-- > 0)` (index.ts:365): the next
\* page.goto(url), or the end of the loop; the function then ends without a
\* return statement, after its finally.
InnerLoop(t) ==
    IF t.inner > 0
    THEN [t EXCEPT !.inner = @ - 1, !.pc = "goto", !.loads = @ + 1, !.allLoads = @ + 1]
    ELSE [t EXCEPT !.inner = @ - 1, !.pc = "closing", !.result = Returned(<<>>)]

\* a bug: gives up one attempt early
InnerCatchEarly(t, e) ==
    IF t.inner <= 1
    THEN [t EXCEPT !.pc = "closing", !.result = Thrown(e)]
    ELSE [t EXCEPT !.inner = @ - 1, !.pc = "goto", !.loads = @ + 1, !.allLoads = @ + 1]

\* `catch (error)` of index.ts:393-400
InnerCatch(t, e) ==
    IF t.inner <= 0
    THEN [t EXCEPT !.pc = "closing", !.result = Thrown(e)]
    ELSE InnerLoop(t)

\* `const page = await browser.newPage()` resolved (index.ts:362)
OpenPage(t) == [t EXCEPT !.page = "open", !.opened = @ + 1]

\* a bug: the tab is closed after the return only, there is no finally
ClosePageOnReturn(t) ==
    IF t.result.kind = "spell" THEN [t EXCEPT !.page = "closed", !.released = @ + 1]
    ELSE t

\* `finally { if (page) { await page.close(); } }` resolved (index.ts:402-406)
ClosePage(t) == [t EXCEPT !.page = "closed", !.released = @ + 1]

\* the text of #content h2 of the document at url
DocName(url) == url

(***************************************************************************)
(* The guarded readers (index.ts:173-360).  A document d, as the readers   *)
(* see it:                                                                 *)
(*   d.fails        the readers whose try block raises on it (no element   *)
(*                  for the selector, a detached node, text without number)*)
(*   d.classTexts   the texts of the links to /classes/                    *)
(*   d.domainTexts  the texts that follow the links to /spells/domains/    *)
(* A value is null, a text, a list or a source.                            *)
(***************************************************************************)
Null == [kind |-> "null", val |-> <<>>]
Text(s) == [kind |-> "text", val |-> <<s>>]
List(xs) == [kind |-> "list", val |-> xs]

\* NaN of parseInt; the numbers read are not negative
NaN == -1
DigitVal(c) == CHOOSE n \in 0..3 : <<"0", "1", "2", "3">>[n + 1] = c

RECURSIVE DigitsToInt(_)
DigitsToInt(ds) ==
    IF ds = <<>> THEN 0
    ELSE 10 * DigitsToInt(SubSeq(ds, 1, Len(ds) - 1)) + DigitVal(ds[Len(ds)])

RECURSIVE LeadingDigits(_)
LeadingDigits(s) ==
    IF Len(s) = 0 \/ s[1] \notin Digits THEN <<>>
    ELSE <<s[1]>> \o LeadingDigits(Tail(s))

RECURSIVE SkipSpaces(_)
SkipSpaces(s) == IF Len(s) > 0 /\ s[1] = " " THEN SkipSpaces(Tail(s)) ELSE s

\* parseInt(str) (index.ts:145, 238)
ParseInt(str) ==
    LET ds == LeadingDigits(SkipSpaces(str))
    IN  IF ds = <<>> THEN NaN ELSE DigitsToInt(ds)

\* `let spellLevel = null` (index.ts:140)
NullLevel == [null |-> TRUE, class |-> <<>>, level |-> 0]

\* index.ts:137-150: /^(.*)\s(\d+)$/.exec(str), the class and the level
parseClassSpellLevel(str) ==
    LET ds == TrailingDigits(str)
        rest == SubSeq(str, 1, Len(str) - Len(ds))
    IN  IF ds = <<>> \/ rest = <<>> \/ rest[Len(rest)] # " " THEN NullLevel
        ELSE [null |-> FALSE, class |-> SubSeq(rest, 1, Len(rest) - 1),
              level |-> ParseInt(ds)]

\* a reader of the shape try { return text } catch { return null }
TextReader(d, f) == IF f \in d.fails THEN Null ELSE Text(f)
\* a reader of the shape try { return list } catch { return [] }
ListReader(d, f) == IF f \in d.fails THEN List(<<>>) ELSE List(<<f>>)

\* index.ts:173-185
readSource(d) ==
    IF "source" \in d.fails THEN Null
    ELSE [kind |-> "source", val |-> <<"rulebook", "page">>]

\* a bug: schools read inside the fault boundary of the source
readSchoolsWithSource(d) ==
    IF "source" \in d.fails \/ "schools" \in d.fails THEN List(<<>>)
    ELSE List(<<"schools">>)

\* index.ts:187-218
readSchools(d) == ListReader(d, "schools")
readSubschools(d) == ListReader(d, "subschools")
readDescriptors(d) == ListReader(d, "descriptors")

\* index.ts:220-229
readClassLevels(d) ==
    IF "classLevels" \in d.fails THEN List(<<>>)
    ELSE List([j \in 1..Len(d.classTexts) |-> parseClassSpellLevel(d.classTexts[j])])

\* index.ts:231-250
readDomainLevels(d) ==
    IF "domainLevels" \in d.fails THEN List(<<>>)
    ELSE List([j \in 1..Len(d.domainTexts) |->
                  [domain |-> j, level |-> ParseInt(d.domainTexts[j])]])

\* index.ts:252-261
readComponents(d) == ListReader(d, "components")

\* index.ts:263-349
readCastingTime(d) == TextReader(d, "castingTime")
readRange(d) == TextReader(d, "range")
readArea(d) == TextReader(d, "area")
readTarget(d) == TextReader(d, "target")
readEffect(d) == TextReader(d, "effect")
readDuration(d) == TextReader(d, "duration")
readSavingThrow(d) == TextReader(d, "savingThrow")
readSpellResistance(d) == TextReader(d, "spellResistance")

\* index.ts:351-360
readDescription(d) == TextReader(d, "description")

\* index.ts:369-388, with the name read, for the document d
SpellOf(url, d) ==
    [id |-> ExecId(url),
     name |-> DocName(url),
     source |-> readSource(d),
     schools |-> readSchools(d),
     subschools |-> readSubschools(d),
     descriptors |-> readDescriptors(d),
     classLevels |-> readClassLevels(d),
     domainLevels |-> readDomainLevels(d),
     components |-> readComponents(d),
     castingTime |-> readCastingTime(d),
     range |-> readRange(d),
     area |-> readArea(d),
     target |-> readTarget(d),
     effect |-> readEffect(d),
     duration |-> readDuration(d),
     savingThrow |-> readSavingThrow(d),
     spellResistance |-> readSpellResistance(d),
     description |-> readDescription(d)]

\* the spell of the document the site serves
Spell(url) == SpellOf(url, doc)

(***************************************************************************)
(* eachLimit(spellUrls, CONCURRENCY, iteratee, callback) of the async      *)
(* library (index.ts:3, 411, 431).  rs = [el, task, promise].              *)
(***************************************************************************)
\* `(err) => err ? reject(err) : resolve()` (index.ts:431), called once
FinalCallback(rs, err) ==
    IF rs.el.called THEN rs
    ELSE [rs EXCEPT !.el.called = TRUE,
                    !.promise = IF Truthy(err)
                                THEN [state |-> "rejected", err |-> err]
                                ELSE [state |-> "resolved", err |-> NoErr]]

\* a bug: one iteratee more than the limit
ReplenishGuardOffByOne(running, lim, done) == running <= lim /\ ~done

\* `while (running < limit && !done)`
ReplenishGuard(running, lim, done) == running < lim /\ ~done

RECURSIVE Replenish(_)
Replenish(rs) ==
    IF ReplenishGuard(rs.el.running, limit, rs.el.done)
    THEN IF rs.el.next > Len(rs.task)
         THEN LET r1 == [rs EXCEPT !.el.done = TRUE]
              IN  IF r1.el.running <= 0 THEN FinalCallback(r1, NoErr) ELSE r1
         ELSE Replenish([rs EXCEPT !.el.running = @ + 1,
                                   !.el.next = @ + 1,
                                   !.task[rs.el.next] = StartIteratee(@)])
    ELSE rs

\* a bug: the error is reported but the remaining elements are still started
IterateeCallbackNoStop(rs, err) ==
    LET r1 == [rs EXCEPT !.el.running = @ - 1]
    IN  IF Truthy(err) THEN Replenish(FinalCallback(r1, err))
        ELSE IF r1.el.done /\ r1.el.running <= 0 THEN FinalCallback(r1, NoErr)
        ELSE Replenish(r1)

\* done(err) of one iteratee
IterateeCallback(rs, err) ==
    LET r1 == [rs EXCEPT !.el.running = @ - 1]
    IN  IF Truthy(err) THEN FinalCallback([r1 EXCEPT !.el.done = TRUE], err)
        ELSE IF r1.el.done /\ r1.el.running <= 0 THEN FinalCallback(r1, NoErr)
        ELSE Replenish(r1)

\* The runner after iteratee i ran on to t: if it called done, eachLimit runs.
Settle(i, t) ==
    LET rs == [el |-> el, task |-> [task EXCEPT ![i] = t], promise |-> promise]
    IN  IF t.pc = "finished" THEN IterateeCallback(rs, t.doneArg) ELSE rs

\* `s => { ...; ++spellCounter; spells.push(s); }` (index.ts:456-460)
SpellCallback(s) ==
    /\ spellCounter' = spellCounter + 1
    /\ spells' = Append(spells, s)

(***************************************************************************)
(* main (index.ts:439-474) and the paginator (index.ts:89-131)             *)
(***************************************************************************)
\* `finally { await browser.close(); }` (index.ts:468-470)
CloseBrowser ==
    /\ closes' = closes + 1
    /\ pc' = "closing"

\* puppeteer.launch resolves (index.ts:441); crawlSpellListPages starts and
\* suspends at browser.newPage() (index.ts:94)
LaunchOk ==
    /\ pc = "launch"
    /\ browser' = "open"
    /\ pc' = "listNewPage"
    /\ UNCHANGED <<inputs, log, stdout, closes, listVars, runVars>>

\* puppeteer.launch rejects: the outer catch (index.ts:471-473)
LaunchFail ==
    /\ pc = "launch"
    /\ log' = log \cup {"Could not start browser."}
    /\ pc' = "end"
    /\ UNCHANGED <<inputs, browser, stdout, closes, listVars, runVars>>

\* browser.newPage() resolves; page.goto starts (index.ts:94-96)
ListNewPage ==
    /\ pc = "listNewPage"
    /\ listPage' = "open"
    /\ pc' = "listGoto"
    /\ UNCHANGED <<inputs, browser, log, stdout, closes, pageIdx, navFails, spellUrls,
                   listHist, runVars>>

\* page.goto resolves: the tab shows the first index page
ListGotoOk ==
    /\ pc = "listGoto"
    /\ pageIdx' = 1
    /\ pc' = "listCrawl"
    /\ UNCHANGED <<inputs, browser, log, stdout, closes, listPage, navFails, spellUrls,
                   listHist, runVars>>

\* page.goto rejects: finally page.close(), not awaited (index.ts:124-128);
\* main catches, logs, and closes the browser (index.ts:466-470)
ListGotoFail ==
    /\ pc = "listGoto"
    /\ listPage' = "closing"
    /\ log' = log \cup {"Unexpected error!"}
    /\ CloseBrowser
    /\ UNCHANGED <<inputs, browser, stdout, pageIdx, navFails, spellUrls, listHist, runVars>>

\* a bug: returns after the first page, whatever a.next is
ListCrawlOnce ==
    /\ pc = "listCrawl"
    /\ spellUrls' = spellUrls \o crawlSpellListPage(catalog[pageIdx])
    /\ navFails' = 0
    /\ listPage' = "closing"
    /\ pc' = "listed"
    /\ UNCHANGED <<inputs, browser, log, stdout, closes, pageIdx, listHist, runVars>>

\* One turn of the outer loop (index.ts:98-122): the rows of the page the tab
\* shows, then the a.next control.
ListCrawl ==
    /\ pc = "listCrawl"
    /\ spellUrls' = spellUrls \o crawlSpellListPage(catalog[pageIdx])
    /\ navFails' = 0
    /\ IF catalog[pageIdx].next
       THEN /\ nextBtn' = "live"
            /\ pc' = "listNav"
            /\ UNCHANGED listPage
       ELSE /\ nextBtn' = "none"
            /\ listPage' = "closing"
            /\ pc' = "listed"
    /\ UNCHANGED <<inputs, browser, log, stdout, closes, pageIdx, navTotal, prev, runVars>>

\* waitForNavigation and click resolve (index.ts:109-114); a click on a
\* stale handle rejects
ListNavOk ==
    /\ pc = "listNav"
    /\ nextBtn = "live"
    /\ pageIdx' = pageIdx + 1
    /\ nextBtn' = "none"
    /\ pc' = "listCrawl"
    /\ UNCHANGED <<inputs, browser, log, stdout, closes, listPage, navFails, spellUrls,
                   navTotal, prev, runVars>>

\* a bug: the retry starts over at the rows of the page
ListNavFailRecrawl ==
    /\ pc = "listNav"
    /\ navFails < MaxNavFails
    /\ navFails' = navFails + 1
    /\ navTotal' = navTotal + 1
    /\ pc' = "listCrawl"
    /\ UNCHANGED <<inputs, browser, log, stdout, closes, listPage, pageIdx, spellUrls,
                   nextBtn, prev, runVars>>

\* One of them rejects: the inner loop tries again with the same handle
\* (index.ts:107-117).  Either the tab still shows the page (the click failed,
\* or the navigation has not replaced the document yet), or the click went
\* through and only waitForNavigation timed out: the tab then shows the next
\* page and nextBtn is a handle into a document that is gone.  The loop has
\* no limit: past MaxNavFails the failures are only no longer counted.
ListNavFail ==
    /\ pc = "listNav"
    /\ navFails' = IF navFails < MaxNavFails THEN navFails + 1 ELSE navFails
    /\ navTotal' = IF navFails < MaxNavFails THEN navTotal + 1 ELSE navTotal
    /\ \/ UNCHANGED <<pageIdx, nextBtn>>
       \/ /\ nextBtn = "live"
          /\ nextBtn' = "stale"
          /\ pageIdx' = pageIdx + 1
    /\ UNCHANGED <<inputs, pc, browser, log, stdout, closes, listPage, spellUrls, prev, runVars>>

\* page.close() of the paginator's tab completes, whenever it does
ListPageClosed ==
    /\ listPage = "closing"
    /\ listPage' = "closed"
    /\ UNCHANGED <<inputs, pc, browser, log, stdout, closes, pageIdx, navFails, spellUrls,
                   listHist, runVars>>

\* crawlSpellListPages is called once more, on the same browser and catalog
ListAgain ==
    /\ pc = "listed"
    /\ prev = <<>>
    /\ prev' = <<[urls |-> spellUrls, fails |-> navTotal]>>
    /\ listPage' = "none"
    /\ pageIdx' = 0
    /\ navFails' = 0
    /\ navTotal' = 0
    /\ spellUrls' = <<>>
    /\ nextBtn' = "none"
    /\ pc' = "listNewPage"
    /\ UNCHANGED <<inputs, browser, log, stdout, closes, runVars>>

\* a bug: crawlSpellPages is called whatever the length of spellUrls
StartCrawlAlways ==
    /\ pc = "listed"
    /\ spells' = <<>>
    /\ spellCounter' = 0
    /\ LET rs == Replenish([el |-> NoEl,
                            task |-> [i \in 1..Len(spellUrls) |-> IdleTask],
                            promise |-> [state |-> "pending", err |-> NoErr]])
       IN  /\ el' = rs.el
           /\ task' = rs.task
           /\ promise' = rs.promise
    /\ pc' = "crawl"
    /\ navTotal' = 0
    /\ UNCHANGED <<inputs, browser, log, stdout, closes, listPage, pageIdx, navFails,
                   spellUrls, nextBtn, prev>>

\* crawlSpellListPages resolved with urls: crawlSpellPages starts, eachLimit
\* calls the first iteratees (index.ts:452-456, 410-411)
StartCrawl ==
    /\ pc = "listed"
    /\ Len(spellUrls) > 0
    /\ spells' = <<>>
    /\ spellCounter' = 0
    /\ LET rs == Replenish([el |-> NoEl,
                            task |-> [i \in 1..Len(spellUrls) |-> IdleTask],
                            promise |-> [state |-> "pending", err |-> NoErr]])
       IN  /\ el' = rs.el
           /\ task' = rs.task
           /\ promise' = rs.promise
    /\ pc' = "crawl"
    /\ navTotal' = 0
    /\ UNCHANGED <<inputs, browser, log, stdout, closes, listPage, pageIdx, navFails,
                   spellUrls, nextBtn, prev>>

\* crawlSpellListPages resolved with no url (index.ts:463-465)
NoSpells ==
    /\ pc = "listed"
    /\ Len(spellUrls) = 0
    /\ log' = log \cup {"No spells found!"}
    /\ CloseBrowser
    /\ navTotal' = 0
    /\ UNCHANGED <<inputs, browser, stdout, listPage, pageIdx, navFails, spellUrls,
                   nextBtn, prev, runVars>>

\* the promise of crawlSpellPages resolved (index.ts:462)
CrawlResolved ==
    /\ pc = "crawl"
    /\ promise.state = "resolved"
    /\ stdout' = Append(stdout, spells)
    /\ CloseBrowser
    /\ UNCHANGED <<inputs, browser, log, listVars, runVars>>

\* a bug: the catch without the finally
CrawlRejectedNoClose ==
    /\ pc = "crawl"
    /\ promise.state = "rejected"
    /\ log' = log \cup {"Unexpected error!"}
    /\ pc' = "end"
    /\ UNCHANGED <<inputs, browser, stdout, closes, listVars, runVars>>

\* the promise of crawlSpellPages rejected (index.ts:466-467)
CrawlRejected ==
    /\ pc = "crawl"
    /\ promise.state = "rejected"
    /\ log' = log \cup {"Unexpected error!"}
    /\ CloseBrowser
    /\ UNCHANGED <<inputs, browser, stdout, listVars, runVars>>

\* browser.close() resolves: every tab is gone with the browser
BrowserClosed ==
    /\ pc = "closing"
    /\ browser' = "closed"
    /\ listPage' = IF listPage = "none" THEN "none" ELSE "closed"
    /\ pc' = "end"
    /\ UNCHANGED <<inputs, log, stdout, closes, pageIdx, navFails, spellUrls, listHist, runVars>>

(***************************************************************************)
(* The iteratees: one action per resumption of crawlSpellPage.  An         *)
(* operation on a closed browser rejects.                                  *)
(***************************************************************************)
UrlOf(i) == SpellUrl(spellUrls[i])

\* iteratee i ran on to t without calling the callback of main
Runs(i, t) ==
    LET rs == Settle(i, t)
    IN  /\ el' = rs.el
        /\ task' = rs.task
        /\ promise' = rs.promise

\* browser.newPage() resolves (index.ts:362-367): the first page.goto starts
NewPageOk(i) ==
    /\ task[i].pc = "newPage"
    /\ browser = "open"
    /\ Runs(i, InnerLoop(OpenPage([task[i] EXCEPT !.inner = retryLimit])))
    /\ UNCHANGED <<inputs, pc, browser, log, stdout, closes, listVars, spells, spellCounter>>

\* browser.newPage() rejects, outside the try of crawlSpellPage
NewPageFail(i) ==
    /\ task[i].pc = "newPage"
    /\ browser = "closed"
    /\ Runs(i, OuterCatch(task[i], spellUrls[i], Err("newPage", <<>>)))
    /\ UNCHANGED <<inputs, pc, browser, log, stdout, closes, listVars, spells, spellCounter>>

\* page.goto resolves (index.ts:367-371): the id is taken from the url, then
\* readName starts
GotoOk(i) ==
    /\ task[i].pc = "goto"
    /\ browser = "open"
    /\ Runs(i, IF IdMatches(UrlOf(i))
               THEN [task[i] EXCEPT !.pc = "readName", !.loaded = TRUE]
               ELSE InnerCatch([task[i] EXCEPT !.loaded = TRUE], Err("id", <<>>)))
    /\ UNCHANGED <<inputs, pc, browser, log, stdout, closes, listVars, spells, spellCounter>>

\* page.goto rejects (index.ts:393-400)
GotoFail(i) ==
    /\ task[i].pc = "goto"
    /\ \E e \in LoadErrs(UrlOf(i)) :
           Runs(i, InnerCatch([task[i] EXCEPT !.loadFails = @ + 1], e))
    /\ UNCHANGED <<inputs, pc, browser, log, stdout, closes, listVars, spells, spellCounter>>

\* readName resolves; the guarded readers follow and the spell is returned
\* through the finally (index.ts:371-392, 402-405)
ReadNameOk(i) ==
    /\ task[i].pc = "readName"
    /\ browser = "open"
    /\ Runs(i, [task[i] EXCEPT !.pc = "closing", !.result = Returned(Spell(UrlOf(i)))])
    /\ UNCHANGED <<inputs, pc, browser, log, stdout, closes, listVars, spells, spellCounter>>

\* readName rethrows (index.ts:168-170, 393-400)
ReadNameFail(i) ==
    /\ task[i].pc = "readName"
    /\ Runs(i, InnerCatch([task[i] EXCEPT !.nameFails = @ + 1], Err("name", <<>>)))
    /\ UNCHANGED <<inputs, pc, browser, log, stdout, closes, listVars, spells, spellCounter>>

\* page.close() resolves: crawlSpellPage returns or throws what it held
\* (index.ts:402-406, 417-423)
CloseOk(i) ==
    /\ task[i].pc = "closing"
    /\ browser = "open"
    /\ LET r == task[i].result
       IN  IF r.kind = "spell" /\ r.spell # <<>>
           THEN /\ SpellCallback(r.spell)
                /\ Runs(i, OuterSuccess(ClosePage(task[i])))
           ELSE /\ Runs(i, OuterCatch(ClosePage(task[i]), spellUrls[i],
                                       IF r.kind = "throw" THEN r.err
                                       ELSE Err("callback", <<>>)))
                /\ UNCHANGED <<spells, spellCounter>>
    /\ UNCHANGED <<inputs, pc, browser, log, stdout, closes, listVars>>

\* page.close() rejects: its error replaces what crawlSpellPage held
CloseFail(i) ==
    /\ task[i].pc = "closing"
    /\ browser = "closed"
    /\ Runs(i, OuterCatch([task[i] EXCEPT !.page = "gone"], spellUrls[i],
                           Err("close", <<>>)))
    /\ UNCHANGED <<inputs, pc, browser, log, stdout, closes, listVars, spells, spellCounter>>

(***************************************************************************)
(* Specifications                                                          *)
(***************************************************************************)
Start ==
    /\ pc = "launch"
    /\ browser = "none"
    /\ log = {}
    /\ stdout = <<>>
    /\ closes = 0
    /\ listPage = "none"
    /\ pageIdx = 0
    /\ navFails = 0
    /\ spellUrls = <<>>
    /\ nextBtn = "none"
    /\ navTotal = 0
    /\ prev = <<>>
    /\ el = NoEl
    /\ promise = NoPromise
    /\ task = <<>>
    /\ spells = <<>>
    /\ spellCounter = 0

\* the document of the runs that do not vary it: no area line, one class link
RunDoc ==
    [fails |-> {"area"},
     classTexts |-> << <<"W", " ", "3">> >>,
     domainTexts |-> <<>>]

\* the concurrency ceilings of Spec
ConcurrencyLevels == {1, 2, CONCURRENCY, 8}

\* the catalogs of Spec: none, one and two urls
RunCatalogs ==
    { <<MkPage(<<RowHeader, RowOther, RowNoRulebook>>, FALSE)>>,
      <<MkPage(<<RowHeader, RowA>>, FALSE)>>,
      <<MkPage(<<RowC>>, FALSE)>>,
      <<MkPage(<<RowA, RowOther>>, TRUE), MkPage(<<RowNoLink, RowB>>, FALSE)>> }

\* five urls, run with a retry limit of 1
WideCatalogs ==
    { <<MkPage(<<RowA, RowB>>, TRUE), MkPage(<<RowB, RowA, RowB>>, FALSE)>> }

Init ==
    /\ \/ /\ catalog \in RunCatalogs
          /\ retryLimit \in 1..MaxRetryLimit
       \/ /\ catalog \in WideCatalogs
          /\ retryLimit = 1
    /\ limit \in ConcurrencyLevels
    /\ doc = RunDoc
    /\ Start

ListNext ==
    \/ LaunchOk
    \/ LaunchFail
    \/ ListNewPage
    \/ ListGotoOk
    \/ ListGotoFail
    \/ ListCrawl
    \/ ListNavOk
    \/ ListNavFail
    \/ ListPageClosed

Next ==
    \/ LaunchOk
    \/ LaunchFail
    \/ ListNewPage
    \/ ListGotoOk
    \/ ListGotoFail
    \/ ListCrawl
    \/ ListNavOk
    \/ ListNavFail
    \/ ListPageClosed
    \/ StartCrawl
    \/ NoSpells
    \/ CrawlResolved
    \/ CrawlRejected
    \/ BrowserClosed
    \/ \E i \in DOMAIN task : NewPageOk(i)
    \/ \E i \in DOMAIN task : NewPageFail(i)
    \/ \E i \in DOMAIN task : GotoOk(i)
    \/ \E i \in DOMAIN task : GotoFail(i)
    \/ \E i \in DOMAIN task : ReadNameOk(i)
    \/ \E i \in DOMAIN task : ReadNameFail(i)
    \/ \E i \in DOMAIN task : CloseOk(i)
    \/ \E i \in DOMAIN task : CloseFail(i)

Spec == Init /\ [][Next]_vars

(***************************************************************************)
(* SpecReal: the program's own RETRY_LIMIT and CONCURRENCY, on catalogs of *)
(* one url.  With one iteratee the browser is closed only after the        *)
(* iteratee has finished, so no operation of it meets a closed browser.    *)
(***************************************************************************)
RealCatalogs ==
    { <<MkPage(<<RowHeader, RowA>>, TRUE), MkPage(<<RowOther>>, FALSE)>>,
      <<MkPage(<<RowNoRulebook>>, TRUE), MkPage(<<RowC>>, FALSE)>> }

InitReal ==
    /\ catalog \in RealCatalogs
    /\ doc = RunDoc
    /\ retryLimit = RETRY_LIMIT
    /\ limit = CONCURRENCY
    /\ Start

NextReal ==
    \/ LaunchOk
    \/ LaunchFail
    \/ ListNewPage
    \/ ListGotoOk
    \/ ListGotoFail
    \/ ListCrawl
    \/ ListNavOk
    \/ ListNavFail
    \/ ListPageClosed
    \/ StartCrawl
    \/ CrawlResolved
    \/ CrawlRejected
    \/ BrowserClosed
    \/ \E i \in DOMAIN task : NewPageOk(i)
    \/ \E i \in DOMAIN task : GotoOk(i)
    \/ \E i \in DOMAIN task : GotoFail(i)
    \/ \E i \in DOMAIN task : ReadNameOk(i)
    \/ \E i \in DOMAIN task : ReadNameFail(i)
    \/ \E i \in DOMAIN task : CloseOk(i)

SpecReal == InitReal /\ [][NextReal]_vars

(***************************************************************************)
(* SpecList: the paginator alone, over many catalogs.                      *)
(***************************************************************************)
ListRowSeqs ==
    { <<>>,
      <<RowHeader, RowA, RowOther>>,
      <<RowB, RowNoRulebook>>,
      <<RowNoLink, RowNullHref, RowC>> }

ListPages == {MkPage(r, n) : r \in ListRowSeqs, n \in BOOLEAN}

\* scenario A: three kept and two other rows, then one kept row
ScenarioA ==
    <<MkPage(<<RowA, RowOther, RowB, RowOther, RowA>>, TRUE),
      MkPage(<<RowB>>, FALSE)>>

\* rows that fail to parse between rows that are kept
ScenarioRowFails ==
    <<MkPage(<<RowA, RowNoRulebook, RowB, RowNoLink, RowA>>, TRUE),
      MkPage(<<RowNoLink, RowB>>, FALSE)>>

ListCatalogs ==
    CatalogsOf(ListPages)
        \cup {<<MkPage(rows, FALSE)>> : rows \in SeqsUpTo(SampleRows, MaxRows)}
        \cup {ScenarioA, ScenarioRowFails}

InitList ==
    /\ catalog \in ListCatalogs
    /\ doc = RunDoc
    /\ retryLimit = RETRY_LIMIT
    /\ limit = CONCURRENCY
    /\ Start

SpecList == InitList /\ [][ListNext]_vars

\* The paginator under fair scheduling: an operation of the browser that is
\* awaited settles, and a navigation that can succeed does so in the end.
SpecListFair ==
    InitList /\ [][ListNext]_vars /\ WF_vars(ListNext) /\ SF_vars(ListNavOk)

\* the paginator run twice on the same catalog
TwiceNext == ListNext \/ ListAgain
SpecTwice == InitList /\ [][TwiceNext]_vars

(***************************************************************************)
(* SpecFields: one url, over documents on which readers fail.              *)
(***************************************************************************)
GuardedFields ==
    {"source", "schools", "subschools", "descriptors", "classLevels", "domainLevels",
     "components", "castingTime", "range", "area", "target", "effect", "duration",
     "savingThrow", "spellResistance", "description"}

ListFields ==
    {"schools", "subschools", "descriptors", "classLevels", "domainLevels", "components"}

\* no reader fails, one fails, two fail, all fail
FailSets ==
    {{}, GuardedFields, {"source", "schools"}, {"classLevels", "description"}}
        \cup {{f} : f \in GuardedFields}

ClassTexts ==
    { <<>>,
      << <<"W", " ", "3">> >>,
      << <<"W">> >>,
      << <<"W", " ", "1", "2">>, <<"W", "3">> >> }

DomainTexts == { <<>>, << <<" ", "2">> >>, << <<"x">> >> }

FieldDocs ==
    {[fails |-> fs, classTexts |-> ct, domainTexts |-> dt] :
        fs \in FailSets, ct \in ClassTexts, dt \in DomainTexts}

FieldCatalogs == { <<MkPage(<<RowHeader>>, TRUE), MkPage(<<RowA>>, FALSE)>> }

InitFields ==
    /\ catalog \in FieldCatalogs
    /\ doc \in FieldDocs
    /\ retryLimit = MaxRetryLimit
    /\ limit = CONCURRENCY
    /\ Start

SpecFields == InitFields /\ [][NextReal]_vars

(***************************************************************************)
(* Properties                                                              *)
(***************************************************************************)
Tasks == DOMAIN task

\* iteratee i is inside a call of crawlSpellPage
InFlight(i) == task[i].pc \in {"newPage", "goto", "readName", "closing"}
NumInFlight == Cardinality({i \in Tasks : InFlight(i)})
Finished(i) == task[i].pc = "finished"

\* C1: for every concurrency ceiling N of {1, 2, 4, 8}, at no instant are more
\* than N calls of crawlSpellPage in flight, whatever succeeded or failed before.
C1_ConcurrencyCeiling ==
    /\ limit \in {1, 2, 4, 8}
    /\ NumInFlight <= limit
    /\ el.running <= limit

\* C1 witness: the program's ceiling of 4 is reached again after an item has
\* completed and the next one was started in its place.
C1_Witness ==
    /\ limit = CONCURRENCY
    /\ NumInFlight = limit
    /\ \E i \in Tasks : Finished(i) /\ task[i].callbacks = 1

\* C2 (as claimed): an item whose call of crawlSpellPage succeeded, on any
\* attempt up to the last, had its callback made and completes without error;
\* an item is reported failed only when all its attempts failed.
C2_SuccessOnAnyAttempt ==
    \A i \in Tasks :
        Finished(i) =>
            /\ task[i].callbacks >= 1 => task[i].doneArg = NoErr
            /\ Truthy(task[i].doneArg) =>
                   task[i].callbacks = 0 /\ task[i].calls = retryLimit

\* the records equal to x in seq
Count(seq, x) == Cardinality({j \in 1..Len(seq) : seq[j] = x})
\* every call of crawlSpellPage for item i failed
Exhausted(i) == Finished(i) /\ task[i].callbacks = 0

\* C3: the array is written at most once, only when every url completed, and
\* then holds one record per url; nothing is written when an item exhausted
\* its attempts, when the run was rejected, or when the browser did not start.
C3_AllOrNothing ==
    /\ Len(stdout) <= 1
    /\ stdout # <<>> =>
           /\ promise.state = "resolved"
           /\ \A i \in Tasks : Finished(i) /\ task[i].callbacks = 1
           /\ Len(stdout[1]) = Len(spellUrls)
           /\ \A i \in Tasks :
                  Count(stdout[1], Spell(UrlOf(i)))
                      = Cardinality({k \in Tasks : Spell(UrlOf(k)) = Spell(UrlOf(i))})
    /\ (\E i \in Tasks : Exhausted(i)) => stdout = <<>>
    /\ promise.state = "rejected" => stdout = <<>>
    /\ "Could not start browser." \in log => stdout = <<>>

\* C3 witness: the array was written, with its records in an order of
\* completion that is not the order of discovery.
C3_Witness ==
    /\ stdout # <<>>
    /\ Len(stdout[1]) >= 2
    /\ stdout[1][1] # Spell(UrlOf(1))

\* C4: a call of crawlSpellPage all of whose loads failed ends only by raising
\* a load error, after exactly RETRY_LIMIT loads; no call loads more often, and
\* none returns without a record.
C4_LoadAlwaysFails ==
    \A i \in Tasks :
        /\ task[i].loads <= retryLimit
        /\ (task[i].pc = "closing" /\ task[i].loadFails = task[i].loads) =>
               /\ task[i].result.kind = "throw"
               /\ task[i].result.err.cause \in LoadCauses
               /\ task[i].loads = retryLimit
        /\ task[i].result.kind = "spell" => task[i].result.spell # <<>>

\* C4 witness: the tenth load of a call failed like the nine before it.
C4_Witness ==
    \E i \in Tasks :
        /\ task[i].pc = "closing"
        /\ task[i].result.kind = "throw"
        /\ task[i].loadFails = RETRY_LIMIT
        /\ task[i].loads = RETRY_LIMIT

\* C5 (as claimed): a call whose load succeeds on attempt k+1, with the name
\* readable, returns then: every attempt before the current one failed at its
\* load or at its name, and a call that raises made no other attempt.
C5_ReturnsOnFirstGoodLoad ==
    \A i \in Tasks :
        /\ InFlight(i) => task[i].loads <= task[i].loadFails + task[i].nameFails + 1
        /\ (task[i].pc = "closing" /\ task[i].result.kind = "throw") =>
               task[i].loads = task[i].loadFails + task[i].nameFails

\* C6: every url has one iteratee, submitted at most once (exactly once when
\* the run resolves), with at most RETRY_LIMIT calls of crawlSpellPage and at
\* most one callback; the records and the progress count never exceed the urls.
C6_ExactlyOnce ==
    /\ task # <<>> => Len(task) = Len(spellUrls)
    /\ \A i \in Tasks :
           /\ task[i].subs <= 1
           /\ task[i].calls <= retryLimit
           /\ task[i].callbacks <= 1
    /\ Len(spells) <= Len(spellUrls)
    /\ spellCounter <= Len(spellUrls)
    /\ promise.state = "resolved" => \A i \in Tasks : task[i].subs = 1

\* C6 witness: a run over five urls resolved, each submitted once.
C6_Witness ==
    /\ promise.state = "resolved"
    /\ Len(spellUrls) = 5
    /\ spellCounter = 5
    /\ \A i \in Tasks : task[i].subs = 1 /\ task[i].callbacks = 1

LastVisited(c) == CHOOSE k \in 1..Len(c) : ~c[k].next /\ \A j \in 1..(k - 1) : c[j].next
\* a row the paginator keeps: no header, rulebook of the allow-list, a link
Kept(row) == ~row.th /\ row.rb /\ row.rulebook \in RULEBOOKS /\ row.link
RefsOfPage(p) ==
    LET kept == SelectSeq(p.rows, Kept) IN [j \in 1..Len(kept) |-> kept[j].href]
RECURSIVE RefsUpTo(_, _)
RefsUpTo(c, k) == IF k = 0 THEN <<>> ELSE RefsUpTo(c, k - 1) \o RefsOfPage(c[k])
ExpectedUrls(c) == RefsUpTo(c, LastVisited(c))

ListPhase == {"launch", "listNewPage", "listGoto", "listCrawl", "listNav", "listed"}

\* C8: once an iteratee exists the paginator has returned, having visited the
\* page without a.next and collected the whole list, and from then on the
\* tab's page, the list and the navigation count never change.
C8_PhasesDisjoint ==
    /\ [](task # <<>> =>
             /\ pc \notin ListPhase
             /\ listPage \in {"closing", "closed"}
             /\ pageIdx = LastVisited(catalog)
             /\ spellUrls = ExpectedUrls(catalog))
    /\ [][task # <<>> =>
             /\ pageIdx' = pageIdx
             /\ spellUrls' = spellUrls
             /\ navFails' = navFails]_vars

\* C8 witness: a detail fetch is in flight after a two-page crawl whose tab
\* is still closing.
C8_Witness ==
    /\ \E i \in Tasks : InFlight(i)
    /\ pageIdx = 2
    /\ listPage = "closing"

\* C9: the paginator returns the hrefs of the kept rows of the pages up to the
\* first one without a.next, page by page and row by row.
C9_PageThenRowOrder ==
    pc = "listed" =>
        /\ pageIdx = LastVisited(catalog)
        /\ spellUrls = ExpectedUrls(catalog)

\* C9 witness: scenario A returns four urls.
C9_Witness ==
    /\ catalog = ScenarioA
    /\ pc = "listed"
    /\ spellUrls = <<HrefA, HrefB, HrefA, HrefB>>

\* the paginator returned no url and main went on
ZeroRun ==
    /\ Len(spellUrls) = 0
    /\ pc \in {"closing", "end"}
    /\ browser # "none"
    /\ "Unexpected error!" \notin log

\* C10: when the paginator returns no url, main logs "No spells found!", no
\* iteratee and no promise exist, nothing is written, and browser.close() is
\* called once.
C10_NothingFound ==
    /\ (pc = "listed" /\ Len(spellUrls) = 0) => (task = <<>> /\ stdout = <<>>)
    /\ ZeroRun =>
           /\ "No spells found!" \in log
           /\ task = <<>>
           /\ promise = NoPromise
           /\ stdout = <<>>
           /\ closes = 1
           /\ pc = "end" => browser = "closed"

\* C10 witness: such a run ended with the browser closed.
C10_Witness ==
    /\ ZeroRun
    /\ "No spells found!" \in log
    /\ pc = "end"
    /\ browser = "closed"

\* the value a reader's catch returns
DefaultOf(f) == IF f \in ListFields THEN List(<<>>) ELSE Null

\* record s of url, read from the served document: a field whose reader fails
\* holds the default, every other field what the same document gives with no
\* reader failing
FieldsAsDocumented(s, url) ==
    /\ s.id = ExecId(url)
    /\ s.name = DocName(url)
    /\ \A f \in GuardedFields :
           s[f] = IF f \in doc.fails THEN DefaultOf(f)
                  ELSE SpellOf(url, [doc EXCEPT !.fails = {}])[f]

\* C11: when a guarded reader fails, its field holds the default (null, or
\* the empty list for the list fields) and the other fields are what they are
\* without the failure; once the name is read the call returns the record
\* with no further load, whatever readers fail, and the record reaches the
\* callback.
C11_FieldDefaults ==
    /\ [](/\ \A i \in Tasks :
                task[i].result.kind = "spell" =>
                    FieldsAsDocumented(task[i].result.spell, UrlOf(i))
          /\ \A k \in 1..Len(spells) : FieldsAsDocumented(spells[k], UrlOf(1)))
    /\ [][\A i \in Tasks :
              (/\ task[i].pc = "readName"
               /\ task'[i].pc # "readName"
               /\ task'[i].nameFails = task[i].nameFails) =>
                  /\ task'[i].pc = "closing"
                  /\ task'[i].result.kind = "spell"
                  /\ task'[i].loads = task[i].loads
                  /\ task'[i].calls = task[i].calls]_vars

\* C11 witness: every guarded reader failed on the document, and its record,
\* all defaults, reached the callback after one load.
C11_Witness ==
    /\ doc.fails = GuardedFields
    /\ Len(spells) = 1
    /\ spells[1].source = Null
    /\ spells[1].schools = List(<<>>)
    /\ task[1].calls = 1
    /\ task[1].loads = 1

\* iteratee i holds an open tab
HoldsPage(i) == task[i].page = "open"

\* C12: a call of crawlSpellPage opens one tab, keeps it over its retries and
\* has closed it when it ends, by return or by throw; outside a call an item
\* holds no open tab, and the open tabs of the items never exceed the
\* concurrency ceiling.  (A tab whose page.close() rejects went with the
\* browser, closed under the call.)
C12_OnePagePerCall ==
    /\ \A i \in Tasks :
           /\ task[i].opened <= task[i].calls
           /\ task[i].pc \in {"goto", "readName", "closing"} =>
                  /\ HoldsPage(i)
                  /\ task[i].opened = task[i].released + 1
           /\ task[i].pc \in {"idle", "newPage", "finished"} =>
                  /\ ~HoldsPage(i)
                  /\ browser = "open" => task[i].opened = task[i].released
                  /\ task[i].page = "gone" => browser = "closed"
           /\ browser = "open" =>
                  task[i].opened = IF task[i].pc = "newPage" THEN task[i].calls - 1
                                   ELSE task[i].calls
    /\ Cardinality({i \in Tasks : HoldsPage(i)}) <= limit

\* C12 witness: an item is in its second call, after a second load in the
\* same tab, and the tab of its first call, which threw, was closed.
C12_Witness ==
    \E i \in Tasks :
        /\ task[i].calls = 2
        /\ task[i].loads = 2
        /\ task[i].pc = "goto"
        /\ task[i].opened = 2
        /\ task[i].released = 1

\* main has left the try block of index.ts:448-467
LeftTry ==
    \/ stdout # <<>>
    \/ "No spells found!" \in log
    \/ "Unexpected error!" \in log

\* C13: browser.close() is called once the browser was launched and main has
\* left its try block, by the written output, by "No spells found!", by an
\* error of the paginator or by a rejected run; it is never called before,
\* never twice, and never when the launch failed.
C13_ClosedOnce ==
    /\ closes <= 1
    /\ browser = "none" => closes = 0
    /\ pc \in ListPhase \cup {"crawl"} => closes = 0 /\ ~LeftTry
    /\ LeftTry => closes = 1 /\ pc \in {"closing", "end"}
    /\ (pc = "end" /\ browser # "none") => closes = 1 /\ browser = "closed"
    /\ pc = "closing" => closes = 1 /\ browser = "open"

\* C13 witness: the run was rejected while another item was in flight, and
\* the browser was closed, once.
C13_Witness ==
    /\ promise.state = "rejected"
    /\ \E i \in Tasks : InFlight(i)
    /\ pc = "end"
    /\ browser = "closed"
    /\ closes = 1

\* C14: a second run of the paginator on the unchanged catalog returns the
\* list the first run returned, whatever navigations failed in either run.
C14_SameListTwice ==
    (pc = "listed" /\ prev # <<>>) =>
        /\ spellUrls = prev[1].urls
        /\ Len(spellUrls) = Len(prev[1].urls)

\* C14 witness: two runs over two pages returned, the first with a failed
\* navigation and the second with none.
C14_Witness ==
    /\ pc = "listed"
    /\ prev # <<>>
    /\ prev[1].fails = 1
    /\ navTotal = 0
    /\ Len(spellUrls) >= 2
    /\ pageIdx >= 2

\* C15 (as claimed): within a call of crawlSpellPage only a failed load is
\* followed by another load; a failure to read the name is not.  (Urls without
\* a number, the subject of C5, are left aside.)
C15_ReloadOnlyAfterLoadFailure ==
    \A i \in Tasks :
        IdMatches(UrlOf(i)) =>
            /\ task[i].loads <= task[i].loadFails + 1
            /\ task[i].nameFails <= 1

\* C17: a page with rows that fail to parse still yields the hrefs of all
\* its other matching rows, those before and those after, in row order, and
\* when it has an a.next the paginator goes on to navigate.
C17_RowFailureSkipsRow ==
    [][(/\ pc = "listCrawl"
        /\ pc' # pc
        /\ \E j \in 1..Len(catalog[pageIdx].rows) : RowFails(catalog[pageIdx].rows[j])) =>
           /\ spellUrls' = spellUrls \o RefsOfPage(catalog[pageIdx])
           /\ "Unexpected error!" \notin log'
           /\ pc' = IF catalog[pageIdx].next THEN "listNav" ELSE "listed"]_vars

\* C17 witness: the first page of the scenario was crawled, three urls kept
\* around two failing rows, and the paginator is navigating to the second.
C17_Witness ==
    /\ catalog = ScenarioRowFails
    /\ pc = "listNav"
    /\ pageIdx = 1
    /\ spellUrls = <<HrefA, HrefB, HrefA>>

\* C18: an item that exhausted its attempts has the run rejected in the same
\* step and never leaves it resolved; a rejected run stays rejected with the
\* same error, no iteratee that was not started is started afterwards, and
\* main leaves the crawl once.
C18_FailFast ==
    /\ [](\A i \in Tasks : Exhausted(i) => promise.state = "rejected")
    /\ [][promise.state = "rejected" =>
             /\ promise' = promise
             /\ \A i \in Tasks : task[i].pc = "idle" => task'[i].pc = "idle"]_vars
    /\ [][(pc \in {"closing", "end"}) => (pc' \in {"closing", "end"})]_vars

\* C18 witness: an item exhausted its attempts, main has ended after the
\* rejection, one item was never started and a third finished later with an
\* error of its own.
C18_Witness ==
    /\ pc = "end"
    /\ promise.state = "rejected"
    /\ \E i, j, k \in Tasks :
           /\ i # k
           /\ Exhausted(i)
           /\ task[i].doneArg = promise.err
           /\ task[j].pc = "idle"
           /\ Finished(k)
           /\ Truthy(task[k].doneArg)
           /\ task[k].doneArg # promise.err

\* C19 (as claimed): once main has called browser.close(), no call of
\* crawlSpellPage is in flight.
C19_ClosedAfterFetches ==
    closes >= 1 => \A i \in Tasks : ~InFlight(i)

\* C20: an item makes at most RETRY_LIMIT calls of crawlSpellPage and at most
\* RETRY_LIMIT x RETRY_LIMIT loads; an item all of whose loads failed has,
\* when it reports its error, made exactly RETRY_LIMIT calls and
\* RETRY_LIMIT x RETRY_LIMIT loads, and the run is rejected only then.
C20_NestedRetries ==
    \A i \in Tasks :
        /\ task[i].calls <= retryLimit
        /\ task[i].allLoads <= retryLimit * retryLimit
        /\ (Finished(i) /\ ~task[i].loaded) =>
               /\ task[i].calls = retryLimit
               /\ task[i].allLoads = retryLimit * retryLimit
               /\ Truthy(task[i].doneArg)
               /\ promise.state = "rejected"
        /\ (~Finished(i) /\ Len(task) = 1) => promise.state = "pending"

\* C20 witness: with the limit of 10, the hundredth load of an item failed
\* and the run was rejected after ten calls.
C20_Witness ==
    /\ retryLimit = RETRY_LIMIT
    /\ promise.state = "rejected"
    /\ \E i \in Tasks :
           /\ Exhausted(i)
           /\ task[i].calls = 10
           /\ task[i].allLoads = 100
           /\ ~task[i].loaded

\* the paginator has returned or thrown
ListOver == pc \in {"listed", "closing", "end"}

\* C16 (as claimed): a failed navigation is retried and never surfaces as an
\* error; with navigations that succeed in the end the paginator terminates,
\* and it has then crawled every page up to the last exactly once.
C16_NavRetryTerminates ==
    /\ [](navTotal > 0 => "Unexpected error!" \notin log)
    /\ [](pc = "listed" => spellUrls = ExpectedUrls(catalog))
    /\ <>ListOver

====
